---- MODULE Spec2Model ----
(***************************************************************************)
(* A model of three parts of zcf:                                          *)
(*   - the CCR probe/installer (isCcrInstalled, getCcrVersion, installCcr, *)
(*     startCcrService), with the subprocesses they spawn;                 *)
(*   - the AI-personality configurator (configureAiPersonality and         *)
(*     applyPersonalityDirective), with ZcfConfig and ~/.claude;           *)
(*   - the default command of the CLI (handleDefaultCommand);              *)
(* and of the configuration merge of the specification (apply, strategy    *)
(* merge), whose code is not among the sources.                            *)
(***************************************************************************)
EXTENDS Integers, Sequences, FiniteSets, TLC

VARIABLES
    \* ---- CCR probe / installer -------------------------------------------
    ccrOnPath,   \* environment: whether a ccr executable is on the search path
    op,          \* the exported function the caller invoked ("none" before)
    pc,          \* where that call stands
    procs,       \* the subprocesses spawned by the call, in spawn order
    scriptLang,  \* the scriptLang argument (Undef when not given)
    installed,   \* installCcr's local `installed`
    timer,       \* startCcrService's setTimeout: "unset", "pending", "fired"
    ret,         \* how the call ended: "none", "returned", "thrown"
    retVal,      \* the value returned (a Val record)
    log,         \* console output of the call, in order
    \* ---- AI personality --------------------------------------------------
    ppc,         \* where configureAiPersonality stands
    pargs,       \* its arguments and locals
    zcfConfig,   \* the persisted ZcfConfig record (NoConfig when absent)
    claudeDir,   \* the files of ~/.claude: path -> content (Absent when none)
    backups,     \* the backup snapshots taken so far
    writes,      \* the file writes attempted by the current call
    pret,        \* how the current/last call ended
    plog,        \* console output of the current/last call
    lastSaved,   \* the scriptLang and directive of the call that last saved a choice
    \* ---- CLI default command ---------------------------------------------
    cpc,         \* "parsed", "done"
    cliLang,     \* the positional [lang]
    cliOptions,  \* the parsed options
    calls,       \* the calls of init() and showMainMenu(), with their arguments
    \* ---- merge engine ----------------------------------------------------
    mpc,         \* "ready", "done"
    target,      \* settings.json of the target directory
    template,    \* settings.json of the template set
    mbackups,    \* backups taken by apply
    mresult      \* ApplyResult of the file

ccrVars   == <<ccrOnPath, op, pc, procs, scriptLang, installed, timer, ret, retVal, log>>
persVars  == <<ppc, pargs, zcfConfig, claudeDir, backups, writes, pret, plog, lastSaved>>
cliVars   == <<cpc, cliLang, cliOptions, calls>>
mergeVars == <<mpc, target, template, mbackups, mresult>>
vars      == <<ccrVars, persVars, cliVars, mergeVars>>

(***************************************************************************)
(* Values shared by the parts.                                             *)
(***************************************************************************)
Undef == "undefined"
SupportedLang == {"zh-CN", "en"}

\* A JavaScript value of one of the kinds the CCR functions return.
Null     == [tag |-> "null", b |-> FALSE, s |-> <<>>]
Void     == [tag |-> "void", b |-> FALSE, s |-> <<>>]
Bool(x)  == [tag |-> "bool", b |-> x, s |-> <<>>]
Str(x)   == [tag |-> "str", b |-> FALSE, s |-> x]

(***************************************************************************)
(* CCR probe / installer                                                   *)
(***************************************************************************)
MaxOut == 6

\* The characters of a subprocess's stdout: a digit, a dot, anything else.
Digits   == {"1"}
Alphabet == Digits \cup {".", "v"}
Stdouts  == UNION {[1..n -> Alphabet] : n \in 0..MaxOut}
\* A few outputs, for the specifications whose claims do not read stdout.
SampleStdouts == {<<>>, <<"v">>, <<"1", ".", "1", ".", "1">>}

CmdCcrVersion == "ccr version"
CmdWhichCcr   == "which ccr"
CmdNpmInstall == "npm install -g claude-code-router --force"
CmdCcr        == "ccr"

\* The end of the longest run of digits of s that starts at i (i-1 when none).
RECURSIVE DigitRunEnd(_, _)
DigitRunEnd(s, i) ==
    IF i <= Len(s) /\ s[i] \in Digits THEN DigitRunEnd(s, i + 1) ELSE i - 1

\* Where /\d+\.\d+\.\d+/ ends when matched at position i of s, 0 when it does
\* not match there. Each \d+ is greedy; giving back digits never helps, as
\* the character after a shorter run is a digit and not the dot.
MatchEndAt(s, i) ==
    LET a == DigitRunEnd(s, i) IN
    IF a < i \/ a + 1 > Len(s) \/ s[a + 1] # "." THEN 0
    ELSE LET b == DigitRunEnd(s, a + 2) IN
         IF b < a + 2 \/ b + 1 > Len(s) \/ s[b + 1] # "." THEN 0
         ELSE LET c == DigitRunEnd(s, b + 2) IN
              IF c < b + 2 THEN 0 ELSE c

\* Where /\d+\.\d+/ ends when matched at position i of s, 0 when it does not.
TwoPartEndAt(s, i) ==
    LET a == DigitRunEnd(s, i) IN
    IF a < i \/ a + 1 > Len(s) \/ s[a + 1] # "." THEN 0
    ELSE LET b == DigitRunEnd(s, a + 2) IN IF b < a + 2 THEN 0 ELSE b

\* VersionOf with a pattern of two numbers, /(\d+\.\d+)/.
VersionOfTwoParts(stdout) ==
    LET starts == {i \in 1..Len(stdout) : TwoPartEndAt(stdout, i) # 0} IN
    IF starts = {} THEN Null
    ELSE LET i == CHOOSE x \in starts : \A y \in starts : x <= y
         IN  Str(SubSeq(stdout, i, TwoPartEndAt(stdout, i)))

\* stdout.match(/(\d+\.\d+\.\d+)/): match ? match[1] : null. The match is the
\* leftmost one.
VersionOf(stdout) ==
    LET starts == {i \in 1..Len(stdout) : MatchEndAt(stdout, i) # 0} IN
    IF starts = {} THEN Null
    ELSE LET i == CHOOSE x \in starts : \A y \in starts : x <= y
         IN  Str(SubSeq(stdout, i, MatchEndAt(stdout, i)))

\* A subprocess: its command line, its status, and what it left behind.
\* handled: whether the callback of exec (or the awaiting caller) has run.
Proc(cmd) == [cmd |-> cmd, status |-> "running", out |-> <<>>, err |-> "",
              handled |-> FALSE]

LastProc == procs[Len(procs)]
Settled  == Len(procs) > 0 /\ LastProc.status # "running"
Handle   == [procs EXCEPT ![Len(procs)].handled = TRUE]

\* execAsync(cmd) / exec(cmd, cb): a subprocess is spawned.
Spawn(ps, cmd) == Append(ps, Proc(cmd))

LogLine(level, lang, key) == [level |-> level, lang |-> lang, key |-> key]

\* The statuses and outputs a subprocess can end with, given the environment.
Outcomes(cmd, outs) ==
    LET fail(msgs) == {[status |-> "error", out |-> <<>>, err |-> m] : m \in msgs}
        okay(os)   == {[status |-> "ok", out |-> o, err |-> ""] : o \in os}
    IN  CASE cmd = CmdCcrVersion ->
               IF ccrOnPath THEN okay(outs) \cup fail({"exit"}) ELSE fail({"not found"})
          [] cmd = CmdWhichCcr ->
               IF ccrOnPath THEN okay({<<>>}) \cup fail({"exit"}) ELSE fail({"exit"})
          [] cmd = CmdCcr ->
               IF ccrOnPath THEN okay({<<>>}) \cup fail({"exit"}) ELSE fail({"not found"})
          [] OTHER -> okay({<<>>}) \cup fail({"EEXIST", "other", Undef})

\* The environment: a running subprocess exits or errors.
ChildExit(outs) ==
    /\ \E i \in 1..Len(procs) :
         /\ procs[i].status = "running"
         /\ \E o \in Outcomes(procs[i].cmd, outs) :
              procs' = [procs EXCEPT ![i].status = o.status, ![i].out = o.out,
                                     ![i].err = o.err]
    /\ UNCHANGED <<ccrOnPath, op, pc, scriptLang, installed, timer, ret, retVal, log>>

\* A call ends by returning v.
Return(v) == /\ pc' = "done" /\ ret' = "returned" /\ retVal' = v
\* A call ends by throwing.
Throw == /\ pc' = "done" /\ ret' = "thrown" /\ retVal' = Void

\* isCcrInstalled(), up to its first await.
CallIsCcrInstalled ==
    /\ pc = "idle"
    /\ ppc = "idle"
    /\ op' = "isCcrInstalled"
    /\ procs' = Spawn(procs, CmdCcrVersion)
    /\ pc' = "isi_version"
    /\ UNCHANGED <<ccrOnPath, scriptLang, installed, timer, ret, retVal, log>>

\* isCcrInstalled returns v: to its caller, or into installCcr's `installed`.
IsiResult(v) ==
    IF op = "installCcr"
    THEN /\ installed' = v
         /\ pc' = "inst_checked"
         /\ UNCHANGED <<ret, retVal>>
    ELSE /\ Return(Bool(v))
         /\ UNCHANGED installed

\* IsiVersionSettled that tries `ccr version` once more instead of `which ccr`.
IsiVersionSettledRetry ==
    /\ pc = "isi_version"
    /\ Settled
    /\ IF LastProc.status = "ok"
       THEN /\ procs' = Handle
            /\ IsiResult(TRUE)
       ELSE /\ procs' = Spawn(Handle, CmdCcrVersion)
            /\ pc' = "isi_which"
            /\ UNCHANGED <<installed, ret, retVal>>
    /\ UNCHANGED <<ccrOnPath, op, scriptLang, timer, log>>

\* isCcrInstalled after `await execAsync('ccr version')`: true when it
\* resolved; when it rejected, `which ccr` is spawned.
IsiVersionSettled ==
    /\ pc = "isi_version"
    /\ Settled
    /\ IF LastProc.status = "ok"
       THEN /\ procs' = Handle
            /\ IsiResult(TRUE)
       ELSE /\ procs' = Spawn(Handle, CmdWhichCcr)
            /\ pc' = "isi_which"
            /\ UNCHANGED <<installed, ret, retVal>>
    /\ UNCHANGED <<ccrOnPath, op, scriptLang, timer, log>>

\* IsiWhichSettled without the await: it goes on while `which ccr` runs.
IsiWhichNotAwaited ==
    /\ pc = "isi_which"
    /\ procs' = Handle
    /\ IsiResult(LastProc.status = "ok")
    /\ UNCHANGED <<ccrOnPath, op, scriptLang, timer, log>>

\* isCcrInstalled after `await execAsync('which ccr')`.
IsiWhichSettled ==
    /\ pc = "isi_which"
    /\ Settled
    /\ procs' = Handle
    /\ IsiResult(LastProc.status = "ok")
    /\ UNCHANGED <<ccrOnPath, op, scriptLang, timer, log>>

\* getCcrVersion(), up to its await.
CallGetCcrVersion ==
    /\ pc = "idle"
    /\ ppc = "idle"
    /\ op' = "getCcrVersion"
    /\ procs' = Spawn(procs, CmdCcrVersion)
    /\ pc' = "gv_version"
    /\ UNCHANGED <<ccrOnPath, scriptLang, installed, timer, ret, retVal, log>>

\* getCcrVersion after `await execAsync('ccr version')`.
GvVersionSettled ==
    /\ pc = "gv_version"
    /\ Settled
    /\ procs' = Handle
    /\ Return(IF LastProc.status = "ok" THEN VersionOf(LastProc.out) ELSE Null)
    /\ UNCHANGED <<ccrOnPath, op, scriptLang, installed, timer, log>>

\* installCcr(scriptLang), up to the first await inside isCcrInstalled.
CallInstallCcr(lang) ==
    /\ pc = "idle"
    /\ ppc = "idle"
    /\ op' = "installCcr"
    /\ scriptLang' = lang
    /\ procs' = Spawn(procs, CmdCcrVersion)
    /\ pc' = "isi_version"
    /\ UNCHANGED <<ccrOnPath, installed, timer, ret, retVal, log>>

\* installCcr after `await isCcrInstalled()`.
InstallChecked ==
    /\ pc = "inst_checked"
    /\ IF installed
       THEN /\ log' = Append(log, LogLine("log", scriptLang, "ccrAlreadyInstalled"))
            /\ Return(Void)
            /\ UNCHANGED procs
       ELSE /\ log' = Append(log, LogLine("log", scriptLang, "installingCcr"))
            /\ procs' = Spawn(procs, CmdNpmInstall)
            /\ pc' = "inst_npm"
            /\ UNCHANGED <<ret, retVal>>
    /\ UNCHANGED <<ccrOnPath, op, scriptLang, installed, timer>>

\* InstallNpmSettled that logs every failure of the install and returns.
InstallNpmSettledSwallows ==
    /\ pc = "inst_npm"
    /\ Settled
    /\ procs' = Handle
    /\ IF LastProc.status = "ok"
       THEN log' = Append(log, LogLine("log", scriptLang, "ccrInstallSuccess"))
       ELSE log' = Append(log, LogLine("error", scriptLang, "ccrInstallFailed"))
    /\ Return(Void)
    /\ UNCHANGED <<ccrOnPath, op, scriptLang, installed, timer>>

\* installCcr after `await execAsync('npm install ...')`.
InstallNpmSettled ==
    /\ pc = "inst_npm"
    /\ Settled
    /\ procs' = Handle
    /\ CASE LastProc.status = "ok" ->
              /\ log' = Append(log, LogLine("log", scriptLang, "ccrInstallSuccess"))
              /\ Return(Void)
         [] LastProc.status # "ok" /\ LastProc.err = "EEXIST" ->
              /\ log' = Append(log, LogLine("log", scriptLang, "ccrAlreadyInstalled"))
              /\ Return(Void)
         [] OTHER ->
              /\ log' = Append(log, LogLine("error", scriptLang, "ccrInstallFailed"))
              /\ Throw
    /\ UNCHANGED <<ccrOnPath, op, scriptLang, installed, timer>>

\* const lang = scriptLang || 'zh-CN'
StartLang == IF scriptLang = Undef THEN "zh-CN" ELSE scriptLang

\* CallStartCcrService without the try/catch: a throw of exec leaves the call.
CallStartCcrServiceNoCatch(lang, execThrows) ==
    /\ pc = "idle"
    /\ ppc = "idle"
    /\ op' = "startCcrService"
    /\ scriptLang' = lang
    /\ IF execThrows
       THEN /\ Throw
            /\ UNCHANGED <<procs, timer, log>>
       ELSE /\ procs' = Spawn(procs, CmdCcr)
            /\ timer' = "pending"
            /\ pc' = "start_wait"
            /\ UNCHANGED <<ret, retVal, log>>
    /\ UNCHANGED <<ccrOnPath, installed>>

\* startCcrService(scriptLang), up to its await: exec('ccr', cb) is not
\* awaited; the timer is set. When exec itself throws, the catch logs and the
\* call returns at once.
CallStartCcrService(lang, execThrows) ==
    /\ pc = "idle"
    /\ ppc = "idle"
    /\ op' = "startCcrService"
    /\ scriptLang' = lang
    /\ IF execThrows
       THEN /\ log' = Append(log, LogLine("error", IF lang = Undef THEN "zh-CN" ELSE lang,
                                          "errorStartingCcrService"))
            /\ Return(Void)
            /\ UNCHANGED <<procs, timer>>
       ELSE /\ procs' = Spawn(procs, CmdCcr)
            /\ timer' = "pending"
            /\ pc' = "start_wait"
            /\ UNCHANGED <<ret, retVal, log>>
    /\ UNCHANGED <<ccrOnPath, installed>>

\* The callback given to exec('ccr', cb), run once the subprocess has ended.
StartExecCallback ==
    /\ op = "startCcrService"
    /\ Settled
    /\ ~LastProc.handled
    /\ procs' = Handle
    /\ log' = IF LastProc.status = "error"
              THEN Append(log, LogLine("error", StartLang, "failedToStartCcrService"))
              ELSE log
    /\ UNCHANGED <<ccrOnPath, op, pc, scriptLang, installed, timer, ret, retVal>>

\* startCcrService after `await new Promise(r => setTimeout(r, 2000))`.
StartTimerFired ==
    /\ pc = "start_wait"
    /\ timer = "pending"
    /\ timer' = "fired"
    /\ Return(Void)
    /\ UNCHANGED <<ccrOnPath, op, procs, scriptLang, installed, log>>

\* The caller of a CCR function goes on, once nothing of the call is left.
CcrCallerResumes ==
    /\ pc = "done"
    /\ \A i \in 1..Len(procs) : procs[i].handled
    /\ op' = "none" /\ pc' = "idle" /\ procs' = <<>> /\ scriptLang' = Undef
    /\ installed' = FALSE /\ timer' = "unset" /\ ret' = "none" /\ retVal' = Void
    /\ log' = <<>>
    /\ UNCHANGED ccrOnPath

CcrIdle ==
    /\ op = "none" /\ pc = "idle" /\ procs = <<>> /\ scriptLang = Undef
    /\ installed = FALSE /\ timer = "unset" /\ ret = "none" /\ retVal = Void
    /\ log = <<>>

(***************************************************************************)
(* AI personality                                                          *)
(***************************************************************************)
NumCustom == 2

JsNull == "null"
Absent == "ENOENT"

\* !!x of JavaScript, for the strings and the missing values met here.
Truthy(x) == x \notin {Undef, JsNull, ""}

\* AI_PERSONALITIES: the directive texts are named, not spelled out.
AI_PERSONALITIES == <<
    [id |-> "professional", directive |-> [zh |-> "professional directive zh-CN",
                                            en |-> "professional directive en"]],
    [id |-> "catgirl",      directive |-> [zh |-> "catgirl directive zh-CN",
                                            en |-> "catgirl directive en"]],
    [id |-> "friendly",     directive |-> [zh |-> "friendly directive zh-CN",
                                            en |-> "friendly directive en"]],
    [id |-> "mentor",       directive |-> [zh |-> "mentor directive zh-CN",
                                            en |-> "mentor directive en"]],
    [id |-> "custom",       directive |-> [zh |-> "", en |-> ""]] >>

PersonalityIds == {AI_PERSONALITIES[i].id : i \in 1..Len(AI_PERSONALITIES)}

\* p.directive[scriptLang]
DirectiveIn(p, lang) == IF lang = "zh-CN" THEN p.directive.zh ELSE p.directive.en

\* What the user can type as a custom directive, besides nothing.
CustomPool  == <<"custom text 1", "custom text 2", "custom text 3", "custom text 4">>
CustomTexts == {CustomPool[i] : i \in 1..NumCustom}

\* The files of ~/.claude the model follows.
PersonalityFile == "personality.md"
ClaudePaths == {PersonalityFile, "settings.json", "CLAUDE.md"}

NoConfig == [exists |-> FALSE, aiPersonality |-> Undef, preferredLang |-> Undef]

\* readZcfConfig()?.aiPersonality and ?.preferredLang
ReadAiPersonality == IF zcfConfig.exists THEN zcfConfig.aiPersonality ELSE Undef
ReadPreferredLang == IF zcfConfig.exists THEN zcfConfig.preferredLang ELSE Undef

\* getExistingPersonality(): config?.aiPersonality || null
GetExistingPersonality ==
    IF Truthy(ReadAiPersonality) THEN ReadAiPersonality ELSE JsNull

\* getPersonalityInfo(id) !== undefined
HasPersonalityInfo(id) == \E i \in 1..Len(AI_PERSONALITIES) : AI_PERSONALITIES[i].id = id

\* AI_PERSONALITIES.find(p => p.id === id), for an id that is found.
GetPersonalityInfo(id) ==
    AI_PERSONALITIES[CHOOSE i \in 1..Len(AI_PERSONALITIES) : AI_PERSONALITIES[i].id = id]

\* AI_PERSONALITIES.findIndex(p => p.id === id): 0-based, -1 when not found.
FindIndex(id) ==
    IF HasPersonalityInfo(id)
    THEN (CHOOSE i \in 1..Len(AI_PERSONALITIES) : AI_PERSONALITIES[i].id = id) - 1
    ELSE -1

\* updateZcfConfig({ aiPersonality: p }): the record with that field replaced,
\* created when there was none.
UpdateZcfConfig(cfg, p) == [cfg EXCEPT !.exists = TRUE, !.aiPersonality = p]

\* writeFile(path, content) on the directory dir: the file holds the content
\* when the write succeeds, and the directory is as before when it throws.
WriteFile(dir, path, content, ok) == IF ok THEN [dir EXCEPT ![path] = content] ELSE dir

\* The record of one writeFile under ~/.claude: who wrote, where, what was
\* there, and whether a backup of it existed when it was replaced.
WriteEvent(by, path, content, ok) ==
    [by |-> by, path |-> path, content |-> content, ok |-> ok,
     replaced |-> claudeDir[path],
     backedUp |-> [path |-> path, content |-> claudeDir[path]] \in backups]

\* PersonalityPath naming another file of the directory.
WrongPersonalityPath == "CLAUDE.md"

\* The file applyPersonalityDirective writes.
PersonalityPath == PersonalityFile

\* applyPersonalityDirective(directive), then updateZcfConfig and the success
\* line: lines 150-156 of configureAiPersonality. A failing writeFile is
\* caught inside applyPersonalityDirective and logged in the preferred
\* language; the caller goes on.
ApplyAndSave(personality, directive, ok) ==
    /\ claudeDir' = WriteFile(claudeDir, PersonalityPath, directive, ok)
    /\ writes' = Append(writes, WriteEvent("applyPersonalityDirective",
                                           PersonalityPath, directive, ok))
    /\ zcfConfig' = UpdateZcfConfig(zcfConfig, personality)
    /\ plog' = (IF ok THEN plog
                ELSE Append(plog, LogLine("error",
                        IF Truthy(ReadPreferredLang) THEN ReadPreferredLang ELSE "en",
                        "failedToApplyPersonality")))
               \o <<LogLine("log", pargs.scriptLang, "personalityConfigured")>>
    /\ lastSaved' = [lang |-> pargs.scriptLang, directive |-> directive]
    /\ ppc' = "done"
    /\ pret' = "returned"
    /\ UNCHANGED backups

\* The call ends early: a line is logged and nothing is written.
EndEarly(level, key) ==
    /\ plog' = Append(plog, LogLine(level, pargs.scriptLang, key))
    /\ ppc' = "done"
    /\ pret' = "returned"
    /\ UNCHANGED <<zcfConfig, claudeDir, backups, writes, lastSaved>>

\* CallConfigureAiPersonality asking to keep or modify whatever showExisting is.
CallConfigureAiPersonalityAlwaysShows(lang, showExisting) ==
    /\ ppc = "idle"
    /\ pc \in {"idle", "done"}
    /\ LET existing == GetExistingPersonality
           shows == Truthy(existing) /\ HasPersonalityInfo(existing)
       IN  /\ pargs' = [scriptLang |-> lang, showExisting |-> showExisting,
                        existingPersonality |-> existing,
                        selectDefault |-> IF Truthy(existing) THEN FindIndex(existing) ELSE 0,
                        modify |-> Undef, personality |-> Undef,
                        customDirective |-> Undef,
                        asked |-> IF shows THEN <<"modify">> ELSE <<"personality">>,
                        config0 |-> zcfConfig, dir0 |-> claudeDir]
           /\ plog' = IF shows
                      THEN <<LogLine("log", lang, "existingPersonality"),
                             LogLine("log", lang, "currentPersonality")>>
                      ELSE <<>>
           /\ ppc' = IF shows THEN "confirm" ELSE "select"
    /\ writes' = <<>>
    /\ pret' = "none"
    /\ UNCHANGED <<zcfConfig, claudeDir, backups, lastSaved>>

\* configureAiPersonality(scriptLang, showExisting), up to its first prompt.
CallConfigureAiPersonality(lang, showExisting) ==
    /\ ppc = "idle"
    /\ pc \in {"idle", "done"}
    /\ LET existing == GetExistingPersonality
           shows == showExisting /\ Truthy(existing) /\ HasPersonalityInfo(existing)
       IN  /\ pargs' = [scriptLang |-> lang, showExisting |-> showExisting,
                        existingPersonality |-> existing,
                        selectDefault |-> IF Truthy(existing) THEN FindIndex(existing) ELSE 0,
                        modify |-> Undef, personality |-> Undef,
                        customDirective |-> Undef,
                        asked |-> IF shows THEN <<"modify">> ELSE <<"personality">>,
                        config0 |-> zcfConfig, dir0 |-> claudeDir]
           /\ plog' = IF shows
                      THEN <<LogLine("log", lang, "existingPersonality"),
                             LogLine("log", lang, "currentPersonality")>>
                      ELSE <<>>
           /\ ppc' = IF shows THEN "confirm" ELSE "select"
    /\ writes' = <<>>
    /\ pret' = "none"
    /\ UNCHANGED <<zcfConfig, claudeDir, backups, lastSaved>>

\* The user answers "Modify AI personality?".
AnswerModify(modify) ==
    /\ ppc = "confirm"
    /\ pargs' = [pargs EXCEPT !.modify = IF modify THEN "yes" ELSE "no",
                              !.asked = IF modify THEN Append(@, "personality") ELSE @]
    /\ IF ~modify
       THEN EndEarly("log", "keepPersonality")
       ELSE /\ ppc' = "select"
            /\ UNCHANGED <<zcfConfig, claudeDir, backups, writes, pret, plog, lastSaved>>

\* The user answers "Select AI personality"; a preset is applied at once.
AnswerPersonality(personality, ok) ==
    /\ ppc = "select"
    /\ pargs' = [pargs EXCEPT !.personality = personality,
                              !.asked = IF personality = "custom"
                                        THEN Append(@, "customDirective") ELSE @]
    /\ CASE ~Truthy(personality) -> EndEarly("warn", "cancelled")
         [] personality = "custom" ->
              /\ ppc' = "input"
              /\ UNCHANGED <<zcfConfig, claudeDir, backups, writes, pret, plog, lastSaved>>
         [] OTHER ->
              ApplyAndSave(personality,
                           IF HasPersonalityInfo(personality)
                           THEN DirectiveIn(GetPersonalityInfo(personality), pargs.scriptLang)
                           ELSE "",
                           ok)

\* AnswerCustomDirective without the check of an empty directive.
AnswerCustomDirectiveUnchecked(customDirective, ok) ==
    /\ ppc = "input"
    /\ pargs' = [pargs EXCEPT !.customDirective = customDirective]
    /\ ApplyAndSave(pargs.personality, customDirective, ok)

\* The user answers "Enter custom personality directive".
AnswerCustomDirective(customDirective, ok) ==
    /\ ppc = "input"
    /\ pargs' = [pargs EXCEPT !.customDirective = customDirective]
    /\ IF ~Truthy(customDirective)
       THEN EndEarly("warn", "cancelled")
       ELSE ApplyAndSave(pargs.personality, customDirective, ok)

\* The locals of a call that has not started.
NoArgs == [scriptLang |-> Undef, showExisting |-> FALSE,
           existingPersonality |-> JsNull, selectDefault |-> 0,
           modify |-> Undef, personality |-> Undef, customDirective |-> Undef,
           asked |-> <<>>,
           config0 |-> zcfConfig, dir0 |-> claudeDir]

\* The caller of configureAiPersonality goes on: the call's locals are gone.
PersCallerResumes ==
    /\ ppc = "done"
    /\ ppc' = "idle"
    /\ pargs' = [NoArgs EXCEPT !.config0 = zcfConfig, !.dir0 = claudeDir]
    /\ writes' = <<>>
    /\ pret' = "none"
    /\ plog' = <<>>
    /\ UNCHANGED <<zcfConfig, claudeDir, backups, lastSaved>>

\* The configuration a user can have before the tool runs: no record, or a
\* record with no personality or one written by another version of the tool.
InitialConfigs ==
    {NoConfig} \cup
    [exists : {TRUE}, aiPersonality : {Undef, "", "legacy"}, preferredLang : SupportedLang \cup {Undef}]

InitialDirs ==
    {[p \in ClaudePaths |-> IF p = PersonalityFile THEN c ELSE "user " \o p] :
        c \in {Absent, "user personality"}}

PersIdle ==
    /\ ppc = "idle"
    /\ pargs = NoArgs
    /\ backups = {}
    /\ writes = <<>>
    /\ pret = "none"
    /\ plog = <<>>
    /\ lastSaved = [lang |-> Undef, directive |-> Undef]

PersFresh == /\ zcfConfig = NoConfig
             /\ claudeDir = [p \in ClaudePaths |-> Absent]
             /\ PersIdle

(***************************************************************************)
(* CLI: the default command                                                *)
(***************************************************************************)
\* A function call: the function's name and the arguments passed.
Call(fn, args) == [fn |-> fn, args |-> args]

\* options.init as a condition: set by --init, unset or negated otherwise.
FlagSet(x) == x = "true"

\* lang || options.lang
FirstTruthy(a, b) == IF Truthy(a) THEN a ELSE b

\* HandleDefaultCommand with the option taken before the positional lang.
HandleDefaultCommandOptionFirst(lang, options) ==
    IF FlagSet(options.init)
    THEN <<Call("init", <<[lang |-> FirstTruthy(options.lang, lang),
                           configLang |-> options.configLang,
                           force |-> options.force]>>)>>
    ELSE <<Call("showMainMenu", <<>>)>>

\* handleDefaultCommand(lang, options): the calls it makes.
HandleDefaultCommand(lang, options) ==
    IF FlagSet(options.init)
    THEN <<Call("init", <<[lang |-> FirstTruthy(lang, options.lang),
                           configLang |-> options.configLang,
                           force |-> options.force]>>)>>
    ELSE <<Call("showMainMenu", <<>>)>>

\* The action of the default command '[lang]' of setupCommands.
DefaultCommandAction ==
    /\ cpc = "parsed"
    /\ calls' = calls \o HandleDefaultCommand(cliLang, cliOptions)
    /\ cpc' = "done"
    /\ UNCHANGED <<cliLang, cliOptions>>

\* What the command line of the default command can parse to.
CliLangs   == SupportedLang \cup {Undef}
CliOptions == [init : {Undef, "true", "false"}, lang : CliLangs,
               configLang : CliLangs, force : {Undef, "true"}]

CliIdle == /\ cpc = "parsed"
           /\ cliLang = Undef
           /\ cliOptions = [init |-> Undef, lang |-> Undef, configLang |-> Undef,
                            force |-> Undef]
           /\ calls = <<>>

(***************************************************************************)
(* The configuration merge of the specification: apply with strategy merge *)
(* on the JSON settings file.                                              *)
(***************************************************************************)
\* JSON values: strings, booleans and arrays are leaves, objects hold members
\* (pairs of a key and a value).
JLeaf(kind, x) == [t |-> kind, s |-> x, o |-> {}]
JObj(members)  == [t |-> "object", s |-> "", o |-> members]
JAbsent        == [t |-> "absent", s |-> "", o |-> {}]
JMalformed     == [t |-> "malformed", s |-> "", o |-> {}]

JKeys(v)   == {m[1] : m \in v.o}
JGet(v, k) == (CHOOSE m \in v.o : m[1] = k)[2]

\* The fields whose user value survives a merge.
PreserveKeys == {"apiKey", "model"}

\* DeepMerge with the template winning every conflict.
RECURSIVE DeepMergeNoPreserve(_, _)
DeepMergeNoPreserve(user, tmpl) ==
    LET merged(k) ==
            CASE k \notin JKeys(tmpl) -> JGet(user, k)
              [] k \notin JKeys(user) -> JGet(tmpl, k)
              [] JGet(user, k).t = "object" /\ JGet(tmpl, k).t = "object" ->
                   DeepMergeNoPreserve(JGet(user, k), JGet(tmpl, k))
              [] OTHER -> JGet(tmpl, k)
    IN  JObj({<<k, merged(k)>> : k \in JKeys(user) \cup JKeys(tmpl)})

\* The deep merge of the user's object with the template's.
RECURSIVE DeepMerge(_, _)
DeepMerge(user, tmpl) ==
    LET merged(k) ==
            CASE k \notin JKeys(tmpl) -> JGet(user, k)
              [] k \notin JKeys(user) -> JGet(tmpl, k)
              [] k \in PreserveKeys -> JGet(user, k)
              [] JGet(user, k).t = "object" /\ JGet(tmpl, k).t = "object" ->
                   DeepMerge(JGet(user, k), JGet(tmpl, k))
              [] OTHER -> JGet(tmpl, k)
    IN  JObj({<<k, merged(k)>> : k \in JKeys(user) \cup JKeys(tmpl)})

\* apply(targetDir, {settings.json: template}, "merge", force) on the file.
ApplyMerge ==
    /\ mpc = "ready"
    /\ mpc' = "done"
    /\ CASE target = JAbsent ->
              /\ target' = template
              /\ mresult' = "created"
              /\ UNCHANGED mbackups
         [] target = JMalformed ->
              /\ mresult' = "ParseError"
              /\ UNCHANGED <<target, mbackups>>
         [] OTHER ->
              /\ mbackups' = mbackups \cup {target}
              /\ target' = DeepMerge(target, template)
              /\ mresult' = "merged"
    /\ UNCHANGED template

\* The JSON objects the model draws the two files from.
JStrings   == {JLeaf("string", "abc"), JLeaf("string", "opus")}
JArrays    == {JLeaf("array", "[1]"), JLeaf("array", "[2]")}
InnerKeys  == {"apiKey", "x"}
TopKeys    == {"model", "env"}
ObjectsOver(keys, values) ==
    {JObj({<<k, f[k]>> : k \in DOMAIN f}) : f \in UNION {[d -> values] : d \in SUBSET keys}}
JInner == ObjectsOver(InnerKeys, JStrings)
JTop   == ObjectsOver(TopKeys, JStrings \cup JArrays \cup JInner)

MergeIdle == /\ mpc = "ready" /\ target = JAbsent /\ template = JObj({})
             /\ mbackups = {} /\ mresult = "none"

(***************************************************************************)
(* Specifications                                                          *)
(***************************************************************************)
InitCcr ==
    /\ ccrOnPath \in BOOLEAN
    /\ CcrIdle
    /\ PersFresh
    /\ CliIdle
    /\ MergeIdle

\* What the steps of one part leave alone.
CcrOnly  == UNCHANGED <<persVars, cliVars, mergeVars>>
PersOnly == UNCHANGED <<ccrVars, cliVars, mergeVars>>

NextCcr ==
    \/ CallIsCcrInstalled /\ CcrOnly
    \/ CallGetCcrVersion /\ CcrOnly
    \/ \E lang \in SupportedLang : CallInstallCcr(lang) /\ CcrOnly
    \/ \E lang \in SupportedLang \cup {Undef}, execThrows \in BOOLEAN :
         CallStartCcrService(lang, execThrows) /\ CcrOnly
    \/ ChildExit(Stdouts) /\ CcrOnly
    \/ IsiVersionSettled /\ CcrOnly
    \/ IsiWhichSettled /\ CcrOnly
    \/ GvVersionSettled /\ CcrOnly
    \/ InstallChecked /\ CcrOnly
    \/ InstallNpmSettled /\ CcrOnly
    \/ StartExecCallback /\ CcrOnly
    \/ StartTimerFired /\ CcrOnly
    \/ CcrCallerResumes /\ CcrOnly

SpecCcr == InitCcr /\ [][NextCcr]_vars

InitPers ==
    /\ ccrOnPath = FALSE
    /\ CcrIdle
    /\ zcfConfig \in InitialConfigs
    /\ claudeDir \in InitialDirs
    /\ PersIdle
    /\ CliIdle
    /\ MergeIdle

NextPers ==
    \/ \E lang \in SupportedLang, showExisting \in BOOLEAN :
         CallConfigureAiPersonality(lang, showExisting) /\ PersOnly
    \/ \E modify \in BOOLEAN : AnswerModify(modify) /\ PersOnly
    \/ \E personality \in PersonalityIds \cup {""}, ok \in BOOLEAN :
         AnswerPersonality(personality, ok) /\ PersOnly
    \/ \E customDirective \in CustomTexts \cup {""}, ok \in BOOLEAN :
         AnswerCustomDirective(customDirective, ok) /\ PersOnly
    \/ PersCallerResumes /\ PersOnly

\* The timer of setTimeout fires: the event loop sees to it.
SpecCcrFair == SpecCcr /\ WF_vars(StartTimerFired /\ CcrOnly)

SpecPers == InitPers /\ [][NextPers]_vars

\* The wizard: the CCR functions and configureAiPersonality, one call at a
\* time, with the subprocesses going on beside them.
InitWizard ==
    /\ ccrOnPath \in BOOLEAN
    /\ CcrIdle
    /\ zcfConfig \in InitialConfigs
    /\ claudeDir \in InitialDirs
    /\ PersIdle
    /\ CliIdle
    /\ MergeIdle

NextWizard ==
    \/ CallIsCcrInstalled /\ CcrOnly
    \/ CallGetCcrVersion /\ CcrOnly
    \/ \E lang \in SupportedLang : CallInstallCcr(lang) /\ CcrOnly
    \/ \E lang \in SupportedLang \cup {Undef}, execThrows \in BOOLEAN :
         CallStartCcrService(lang, execThrows) /\ CcrOnly
    \/ ChildExit(SampleStdouts) /\ CcrOnly
    \/ IsiVersionSettled /\ CcrOnly
    \/ IsiWhichSettled /\ CcrOnly
    \/ GvVersionSettled /\ CcrOnly
    \/ InstallChecked /\ CcrOnly
    \/ InstallNpmSettled /\ CcrOnly
    \/ StartExecCallback /\ CcrOnly
    \/ StartTimerFired /\ CcrOnly
    \/ CcrCallerResumes /\ CcrOnly
    \/ \E lang \in SupportedLang, showExisting \in BOOLEAN :
         CallConfigureAiPersonality(lang, showExisting) /\ PersOnly
    \/ \E modify \in BOOLEAN : AnswerModify(modify) /\ PersOnly
    \/ \E personality \in PersonalityIds \cup {""}, ok \in BOOLEAN :
         AnswerPersonality(personality, ok) /\ PersOnly
    \/ \E customDirective \in CustomTexts \cup {""}, ok \in BOOLEAN :
         AnswerCustomDirective(customDirective, ok) /\ PersOnly
    \/ PersCallerResumes /\ PersOnly

SpecWizard == InitWizard /\ [][NextWizard]_vars

InitCli ==
    /\ ccrOnPath = FALSE
    /\ CcrIdle
    /\ PersFresh
    /\ cpc = "parsed"
    /\ cliLang \in CliLangs
    /\ cliOptions \in CliOptions
    /\ calls = <<>>
    /\ MergeIdle

NextCli == DefaultCommandAction /\ UNCHANGED <<ccrVars, persVars, mergeVars>>

SpecCli == InitCli /\ [][NextCli]_vars

InitMerge ==
    /\ ccrOnPath = FALSE
    /\ CcrIdle
    /\ PersFresh
    /\ CliIdle
    /\ mpc = "ready"
    /\ target \in JTop \cup {JAbsent, JMalformed}
    /\ template \in JTop
    /\ mbackups = {}
    /\ mresult = "none"

NextMerge == ApplyMerge /\ UNCHANGED <<ccrVars, persVars, cliVars>>

SpecMerge == InitMerge /\ [][NextMerge]_vars
(***************************************************************************)
(* Properties                                                              *)
(***************************************************************************)
AllDigits(s, a, b) == \A i \in a..b : s[i] \in Digits

\* s contains digits, a dot, digits, a dot, digits.
HasVersionPattern(s) ==
    \E a, b, c, d \in 1..Len(s) :
        /\ a <= b /\ b + 2 <= c /\ c + 2 <= d
        /\ AllDigits(s, a, b) /\ s[b + 1] = "."
        /\ AllDigits(s, b + 2, c) /\ s[c + 1] = "."
        /\ AllDigits(s, c + 2, d)

AllSpawnsFailed == \A i \in 1..Len(procs) : procs[i].status = "error"
NoneRunning     == \A i \in 1..Len(procs) : procs[i].status # "running"
Probes          == {"isCcrInstalled", "getCcrVersion"}

\* C1: isCcrInstalled and getCcrVersion never throw; when every spawn has
\* failed isCcrInstalled returns false and getCcrVersion returns null; and
\* getCcrVersion returns null when `ccr version` succeeded with an output
\* that holds no digits.digits.digits.
C1_ProbesTolerateAbsence ==
    /\ op \in Probes => ret # "thrown"
    /\ (op = "isCcrInstalled" /\ ret = "returned" /\ AllSpawnsFailed)
          => retVal = Bool(FALSE)
    /\ (op = "getCcrVersion" /\ ret = "returned" /\ AllSpawnsFailed)
          => retVal = Null
    /\ (op = "getCcrVersion" /\ ret = "returned" /\ procs[1].status = "ok"
          /\ ~HasVersionPattern(procs[1].out))
          => retVal = Null

\* getCcrVersion has returned null for an output with digits and dots in it
\* but no version.
C1_Witness ==
    /\ op = "getCcrVersion" /\ ret = "returned" /\ procs[1].status = "ok"
    /\ procs[1].out = <<"v", "1", ".", "1", ".", "v">>
    /\ retVal = Null

\* The subprocesses a probe (isCcrInstalled, alone or inside installCcr, or
\* getCcrVersion) has spawned.
ProbeSpawns == {i \in 1..Len(procs) : procs[i].cmd \in {CmdCcrVersion, CmdWhichCcr}}

\* C2 as claimed: a call of isCcrInstalled or getCcrVersion spawns at most
\* one subprocess, and none after the first has failed.
C2_SingleSpawn ==
    op \in Probes => Cardinality(ProbeSpawns) <= 1

\* C2 as amended: getCcrVersion spawns at most one subprocess; isCcrInstalled
\* spawns at most two, `ccr version` and, only after that one has failed,
\* `which ccr`; neither spawns a command twice.
C2_SpawnsAmended ==
    /\ op = "getCcrVersion" => Len(procs) <= 1
    /\ op = "isCcrInstalled" =>
          /\ Len(procs) <= 2
          /\ Len(procs) >= 1 => procs[1].cmd = CmdCcrVersion
          /\ Len(procs) = 2 => procs[2].cmd = CmdWhichCcr /\ procs[1].status = "error"
    /\ op \in Probes =>
          \A i, j \in 1..Len(procs) : procs[i].cmd = procs[j].cmd => i = j

\* isCcrInstalled has returned after both of its subprocesses.
C2_Witness ==
    /\ op = "isCcrInstalled" /\ ret = "returned" /\ Len(procs) = 2
    /\ procs[2].status = "ok" /\ retVal = Bool(TRUE)

\* C3 as claimed: no call of the four functions returns while a subprocess
\* it spawned is still running.
C3_ReturnsAfterExit ==
    ret # "none" => NoneRunning

\* C3 as amended: isCcrInstalled, getCcrVersion and installCcr never return
\* while a subprocess they spawned is running; startCcrService does not wait
\* for its subprocess: having spawned it, it returns when the timer fires.
C3_AwaitedReturnsAfterExit ==
    /\ (op \in {"isCcrInstalled", "getCcrVersion", "installCcr"} /\ ret # "none")
          => NoneRunning
    /\ (op = "startCcrService" /\ ret # "none" /\ procs # <<>>) => timer = "fired"

\* installCcr has ended after its three subprocesses.
C3_Witness ==
    /\ op = "installCcr" /\ ret # "none" /\ Len(procs) = 3 /\ NoneRunning

\* C4: a write that replaces an existing file of ~/.claude happens with a
\* backup of the replaced content taken before it.
C4_BackupBeforeOverwrite ==
    \A i \in 1..Len(writes) :
        (writes[i].ok /\ writes[i].replaced # Absent) => writes[i].backedUp

SuccessLine == LogLine("log", pargs.scriptLang, "personalityConfigured")
Logged(l, line) == \E i \in 1..Len(l) : l[i] = line
WriteFailed == \E i \in 1..Len(writes) : ~writes[i].ok

\* C5: when writing personality.md fails, configureAiPersonality ends
\* without updating ZcfConfig.aiPersonality and without reporting success.
C5_WriteFailureAborts ==
    (ppc = "done" /\ WriteFailed) =>
        /\ zcfConfig = pargs.config0
        /\ ~Logged(plog, SuccessLine)

KeysOfBoth(user, tmpl, res) ==
    /\ res.t = "object"
    /\ JKeys(res) = JKeys(user) \cup JKeys(tmpl)
    /\ Cardinality(res.o) = Cardinality(JKeys(res))

\* res is the merge of two objects whose members are leaves.
LeavesMerged(user, tmpl, res) ==
    /\ KeysOfBoth(user, tmpl, res)
    /\ \A k \in JKeys(res) :
          JGet(res, k) =
             IF k \in JKeys(user) /\ (k \in PreserveKeys \/ k \notin JKeys(tmpl))
             THEN JGet(user, k) ELSE JGet(tmpl, k)

\* res is the merge of two settings objects, rule by rule.
MergedAsClaimed(user, tmpl, res) ==
    /\ KeysOfBoth(user, tmpl, res)
    /\ \A k \in JKeys(user) \ JKeys(tmpl) : JGet(res, k) = JGet(user, k)
    /\ \A k \in JKeys(tmpl) \ JKeys(user) : JGet(res, k) = JGet(tmpl, k)
    /\ \A k \in JKeys(user) \cap JKeys(tmpl) :
          LET u == JGet(user, k)
              n == JGet(tmpl, k)
          IN  CASE k \in PreserveKeys -> JGet(res, k) = u
                [] k \notin PreserveKeys /\ u.t = "object" /\ n.t = "object" ->
                     LeavesMerged(u, n, JGet(res, k))
                [] OTHER -> JGet(res, k) = n

ExampleTarget ==
    JObj({<<"apiType", JLeaf("string", "api_key")>>, <<"apiKey", JLeaf("string", "abc")>>,
          <<"model", JLeaf("string", "default")>>})
ExampleTemplate ==
    JObj({<<"apiType", JLeaf("string", "auth_token")>>, <<"model", JLeaf("string", "opus")>>,
          <<"newField", JLeaf("boolean", "true")>>})
ExampleMerged ==
    JObj({<<"apiType", JLeaf("string", "auth_token")>>, <<"apiKey", JLeaf("string", "abc")>>,
          <<"model", JLeaf("string", "default")>>, <<"newField", JLeaf("boolean", "true")>>})

\* C7: apply with strategy merge keeps the user's value of every preserved
\* key the user had set, takes the template's value for every other key of
\* both (objects merged recursively, arrays replaced), and keeps the keys of
\* one side; the example of the specification comes out as stated.
C7_MergePreservesUserValues ==
    /\ (mpc = "done" /\ mresult = "merged") =>
          \E user \in mbackups :
              /\ mbackups = {user}
              /\ MergedAsClaimed(user, template, target)
    /\ DeepMerge(ExampleTarget, ExampleTemplate) = ExampleMerged

\* A merge where the user's model and nested apiKey survive, the template's
\* x replaces the user's, and the template brings a key of its own.
C7_Witness ==
    /\ mpc = "done" /\ mresult = "merged"
    /\ \E user \in mbackups :
          /\ JKeys(user) = {"model", "env"} /\ JKeys(template) = {"model", "env"}
          /\ JGet(user, "model") # JGet(template, "model")
          /\ JGet(user, "env").t = "object" /\ JGet(template, "env").t = "object"
          /\ JKeys(JGet(user, "env")) = {"apiKey", "x"}
          /\ JKeys(JGet(template, "env")) = {"apiKey", "x"}
          /\ JGet(JGet(user, "env"), "x") # JGet(JGet(template, "env"), "x")
          /\ JGet(JGet(user, "env"), "apiKey") # JGet(JGet(template, "env"), "apiKey")
          /\ JGet(target, "model") = JGet(user, "model")
          /\ JGet(JGet(target, "env"), "x") = JGet(JGet(template, "env"), "x")
          /\ JGet(JGet(target, "env"), "apiKey") = JGet(JGet(user, "env"), "apiKey")

\* The user has completed a choice: a preset, or custom with a directive.
Completed ==
    \/ pargs.personality \in PersonalityIds \ {"custom"}
    \/ pargs.personality = "custom" /\ pargs.customDirective \notin {Undef, ""}

\* C8: configureAiPersonality sets ZcfConfig.aiPersonality to the chosen id
\* exactly when the user completes a choice; otherwise (the user keeps the
\* existing personality, selects nothing or enters no directive) neither
\* personality.md nor ZcfConfig is written and both are as before the call.
C8_ConfigWrittenIffCompleted ==
    /\ (ppc = "done" /\ Completed) =>
          /\ zcfConfig.exists
          /\ zcfConfig.aiPersonality = pargs.personality
          /\ Len(writes) = 1
    /\ ~(ppc = "done" /\ Completed) =>
          /\ zcfConfig = pargs.config0
          /\ claudeDir = pargs.dir0
          /\ writes = <<>>

\* The user chose to modify the stored mentor personality, selected custom
\* and entered nothing: all is as before.
C8_Witness ==
    /\ ppc = "done"
    /\ pargs.existingPersonality = "mentor" /\ pargs.modify = "yes"
    /\ pargs.personality = "custom" /\ pargs.customDirective = ""
    /\ zcfConfig.aiPersonality = "mentor"
    /\ claudeDir[PersonalityFile] = "mentor directive zh-CN"

Received(call, field) == IF Len(call.args) >= 1 THEN call.args[1][field] ELSE Undef

\* C10: the configLang and force of the command line reach the operation
\* the default command runs, with or without --init.
C10_OptionsReachOperation ==
    cpc = "done" =>
        \A i \in 1..Len(calls) :
            /\ Received(calls[i], "configLang") = cliOptions.configLang
            /\ Received(calls[i], "force") = cliOptions.force
\* The questions of configureAiPersonality, in the order of the code.
Questions == <<"modify", "personality", "customDirective">>
QuestionNo(q) == CHOOSE n \in 1..Len(Questions) : Questions[n] = q
Asked(q) == \E i \in 1..Len(pargs.asked) : pargs.asked[i] = q

\* C11: in one call of configureAiPersonality the questions come in the
\* order modify, personality, customDirective, each at most once; modify is
\* asked iff showExisting holds and the stored id is one of the catalog;
\* customDirective is asked iff custom was selected; and nothing is written
\* to personality.md or ZcfConfig while a question is still to be answered.
C11_QuestionsInOrder ==
    /\ \A i, j \in 1..Len(pargs.asked) :
          i < j => QuestionNo(pargs.asked[i]) < QuestionNo(pargs.asked[j])
    /\ ppc # "idle" =>
          /\ Asked("modify") <=>
                (pargs.showExisting /\ pargs.config0.exists
                    /\ pargs.config0.aiPersonality \in PersonalityIds)
          /\ Asked("customDirective") <=> pargs.personality = "custom"
          /\ Asked("personality") <=> (~Asked("modify") \/ pargs.modify = "yes")
    /\ ppc \in {"confirm", "select", "input"} =>
          /\ writes = <<>>
          /\ zcfConfig = pargs.config0
          /\ claudeDir = pargs.dir0
          /\ pargs.asked[Len(pargs.asked)] =
                Questions[CHOOSE n \in 1..3 : <<"confirm", "select", "input">>[n] = ppc]
    /\ (writes # <<>> \/ zcfConfig # pargs.config0) => ppc = "done"

\* All three questions were asked and answered, and then the custom
\* directive was written.
C11_Witness ==
    /\ ppc = "done"
    /\ pargs.asked = Questions
    /\ pargs.customDirective = "custom text 1"
    /\ Len(writes) = 1
NpmSpawns == {i \in 1..Len(procs) : procs[i].cmd = CmdNpmInstall}

\* C12: installCcr spawns npm install at most once, and only after
\* isCcrInstalled has returned false (both of its probes failed); it spawns
\* no command twice; an install that fails with EEXIST in its message ends
\* in a normal return, and any other failure of the install is thrown.
C12_InstallOnceNoRetry ==
    op = "installCcr" =>
        /\ Cardinality(NpmSpawns) <= 1
        /\ \A i, j \in 1..Len(procs) : procs[i].cmd = procs[j].cmd => i = j
        /\ \A i \in NpmSpawns :
              /\ ~installed
              /\ \A j \in 1..(i - 1) : procs[j].status = "error"
              /\ {procs[j].cmd : j \in 1..(i - 1)} = {CmdCcrVersion, CmdWhichCcr}
              /\ ret # "none" =>
                    /\ procs[i].status # "running"
                    /\ ret = "thrown" <=>
                          (procs[i].status = "error" /\ procs[i].err # "EEXIST")
        /\ (ret # "none" /\ NpmSpawns = {}) => (ret = "returned" /\ installed)

\* npm install has failed with EEXIST and installCcr has returned normally.
C12_Witness ==
    /\ op = "installCcr" /\ ret = "returned" /\ Len(procs) = 3
    /\ procs[3].cmd = CmdNpmInstall /\ procs[3].status = "error"
    /\ procs[3].err = "EEXIST"
\* C13: the persisted choice and the applied directive agree: when
\* ZcfConfig.aiPersonality holds a preset id stored by a call, personality.md
\* holds that preset's directive in the script language of that call, and
\* when it holds custom, personality.md holds the directive entered then.
C13_ChoiceAndDirectiveAgree ==
    (zcfConfig.exists /\ lastSaved.lang # Undef) =>
        LET p == zcfConfig.aiPersonality IN
        /\ p \in PersonalityIds \ {"custom"} =>
              claudeDir[PersonalityFile] = DirectiveIn(GetPersonalityInfo(p), lastSaved.lang)
        /\ p = "custom" => claudeDir[PersonalityFile] = lastSaved.directive
\* The lines startCcrService can log.
StartFailureLines ==
    {LogLine("error", StartLang, k) : k \in {"failedToStartCcrService", "errorStartingCcrService"}}

\* C14 as claimed, the part a finite run decides: startCcrService never
\* rejects, resolves only once the wait has elapsed, and only logs failures.
C14_ResolvesAfterWait ==
    op = "startCcrService" =>
        /\ ret # "thrown"
        /\ ret = "returned" => timer = "fired"
        /\ \A i \in 1..Len(log) : log[i] \in StartFailureLines

\* startCcrService never rejects and only logs failures; having spawned ccr
\* it resolves when the timer has fired and not before, and when exec itself
\* throws it resolves at once, with the error logged and no timer set.
C14_Safe ==
    op = "startCcrService" =>
        /\ ret # "thrown"
        /\ (ret = "returned" /\ procs # <<>>) => timer = "fired"
        /\ (ret = "none" /\ procs # <<>>) => timer = "pending"
        /\ procs = <<>> =>
              /\ ret = "returned" /\ timer = "unset"
              /\ log = <<LogLine("error", StartLang, "errorStartingCcrService")>>
        /\ \A i \in 1..Len(log) : log[i] \in StartFailureLines
        /\ \A i \in 1..Len(procs) :
              (procs[i].handled /\ procs[i].status = "error") =>
                  Logged(log, LogLine("error", StartLang, "failedToStartCcrService"))

\* C14 as amended: startCcrService always completes and never rejects; when
\* ccr was spawned the call resolves once the wait has elapsed, whatever the
\* subprocess does, and when exec itself throws it resolves at once, without
\* the wait; failures are only logged.
C14_StartCompletes ==
    /\ []C14_Safe
    /\ (op = "startCcrService") ~> (ret = "returned")

\* ccr has failed before the wait elapsed, the failure was logged, and the
\* call has resolved after the wait.
C14_Witness ==
    /\ op = "startCcrService" /\ ret = "returned" /\ timer = "fired"
    /\ procs[1].status = "error" /\ procs[1].handled
    /\ log = <<LogLine("error", "zh-CN", "failedToStartCcrService")>>
    /\ scriptLang = Undef
====
